---- MODULE Spec2Model ----
(***************************************************************************)
(* Model of src/event.py: class Event, an in-process observer list.        *)
(*                                                                         *)
(* The handler list is a sequence of entries (handler, kwargs).  A keyword *)
(* dictionary is a set of <<name, value>> pairs with pairwise distinct     *)
(* names.  fire is re-entrant: the handlers it calls are code of the       *)
(* environment and may call add_handler, add_sys_handler, remove_handler   *)
(* and fire on the same Event, or raise.  The stack holds one frame per    *)
(* fire call in progress; the handler invoked by the top frame is the code *)
(* that is running.                                                        *)
(*                                                                         *)
(* History fields (not fields of the Python object) are marked "history":  *)
(* they record what was called and what was invoked, so that the           *)
(* properties can speak about registration order and invocations.          *)
(***************************************************************************)
EXTENDS Integers, Sequences, FiniteSets, TLC

\* ---------------------------------------------------------------- bounds
MaxCalls == 4      \* add_handler / add_sys_handler / remove_handler calls
MaxFires == 2      \* fire calls
MaxDepth == 2      \* fire calls in progress at the same time
MaxArgCalls == 3   \* the same, where calls carry keyword arguments
MaxArgFires == 2

Handlers == {"A", "B", "C"}                 \* handler callables
NoKw     == { {} }                          \* calls without keyword arguments
BoundKw  == { {}, {<<"x", 1>>}, {<<"tag", 7>>} }   \* kwargs of a registration
FireKw   == { {}, {<<"x", 2>>}, {<<"n", 5>>} }     \* kwargs of a fire

\* What the environment does: how many calls it makes, and whether the
\* handlers it registers call back into the Event
Reentrant == [calls |-> MaxCalls, fires |-> MaxFires, depth |-> MaxDepth,
              nested |-> TRUE]
Passive   == [calls |-> MaxArgCalls, fires |-> MaxArgFires, depth |-> 1,
              nested |-> FALSE]

\* Handlers that only query the Event
Querying  == [calls |-> MaxArgCalls, fires |-> MaxArgFires, depth |-> 1,
              nested |-> TRUE]

\* Handlers call back into the Event but do not call fire, and return
Flat      == [calls |-> MaxCalls, fires |-> MaxFires, depth |-> 1,
              nested |-> TRUE]

VARIABLES
  handlers,   \* self.handlers
  owner,      \* self.owner
  stack,      \* fire calls in progress, innermost last
  exc,        \* exception delivered to the code that made the last call
  last,       \* history: the registration call made by the last step
  lastPass,   \* history: the fire pass that the last step ended
  regOrder,   \* history: handlers passed to add_handler, in call order
  pure,       \* history: only add_handler calls with distinct handlers so far
  lastFargs,  \* history: the keyword arguments of the latest fire call
  sysOrder,   \* history: handlers stored by add_sys_handler and not removed
              \* since, in call order
  ncalls, nfires

vars == <<handlers, owner, stack, exc, last, lastPass, regOrder, pure,
          lastFargs, sysOrder, ncalls, nfires>>

\* ------------------------------------------------------------ dictionaries
Keys(d) == {p[1] : p \in d}

\* dict.update: entries of d whose name is in u are replaced by u's
DictUpdate(d, u) == {p \in d : p[1] \notin Keys(u)} \cup u

\* ----------------------------------------------------------------- logger
\* The module binds no global named logger.
logger == "unbound"

\* Evaluating logger.<method>(...)
LoggerCall(method) ==
  IF logger = "unbound" THEN "NameError"
  ELSE IF method = "error" THEN "none"
  ELSE "AttributeError"

\* ---------------------------------------------------------------- queries
\* (faulty variant: (handler, {}) in self.handlers, the kwargs compared too)
has_handler_tuple(hs, h) == \E i \in 1..Len(hs) : h = hs[i].h /\ hs[i].k = {}
has_handler(hs, h) == \E i \in 1..Len(hs) : h = hs[i].h

get_handler_count(hs) == Len(hs)

\* --------------------------------------------------------- list primitives
\* list.remove(x): drops the first element equal to x
\* (faulty variant: drops the last element of the list)
ListRemove_pop(hs, h, k) == SubSeq(hs, 1, Len(hs) - 1)
ListRemove(hs, h, k) ==
  LET idx == {i \in 1..Len(hs) : hs[i].h = h /\ hs[i].k = k}
  IN  IF idx = {} THEN hs
      ELSE LET m == CHOOSE i \in idx : \A j \in idx : i <= j
           IN  SubSeq(hs, 1, m - 1) \o SubSeq(hs, m + 1, Len(hs))

\* list.insert(0, x)
\* (faulty variant: list.insert(1, x))
ListInsertFront_one(hs, e) ==
  IF hs = <<>> THEN <<e>> ELSE <<Head(hs), e>> \o Tail(hs)
ListInsertFront(hs, e) == <<e>> \o hs

\* list.append(x)
ListAppend(hs, e) == Append(hs, e)

\* ------------------------------------------------------------ registration
\* __assert_no_duplicate_handler: the exception it ends with ("none": returns)
\* (faulty variant: never raises)
assert_no_duplicate_handler_silent(hs, h) == "none"
assert_no_duplicate_handler(hs, h) ==
  IF \E i \in 1..Len(hs) : h = hs[i].h THEN LoggerCall("eror") ELSE "none"

\* The entry (handler, kwargs) stored for a registration.  sys is history:
\* add_sys_handler stored it
Entry(h, k, sys) == [h |-> h, k |-> k, sys |-> sys]

\* add_sys_handler: [exc, handlers] after the call
\* (faulty variant: appends)
add_sys_handler_append(hs, h, k) ==
  LET e == assert_no_duplicate_handler(hs, h)
  IN  IF e # "none" THEN [exc |-> e, handlers |-> hs]
      ELSE [exc |-> "none", handlers |-> ListAppend(hs, Entry(h, k, TRUE))]
add_sys_handler(hs, h, k) ==
  LET e == assert_no_duplicate_handler(hs, h)
  IN  IF e # "none" THEN [exc |-> e, handlers |-> hs]
      ELSE [exc |-> "none", handlers |-> ListInsertFront(hs, Entry(h, k, TRUE))]

\* add_handler: [exc, handlers] after the call
\* (faulty variants: appends before the duplicate test; inserts at the front)
add_handler_eager(hs, h, k) ==
  LET e == assert_no_duplicate_handler(hs, h)
  IN  [exc |-> e, handlers |-> ListAppend(hs, Entry(h, k, FALSE))]
add_handler_front(hs, h, k) ==
  LET e == assert_no_duplicate_handler(hs, h)
  IN  IF e # "none" THEN [exc |-> e, handlers |-> hs]
      ELSE [exc |-> "none", handlers |-> ListInsertFront(hs, Entry(h, k, FALSE))]
add_handler(hs, h, k) ==
  LET e == assert_no_duplicate_handler(hs, h)
  IN  IF e # "none" THEN [exc |-> e, handlers |-> hs]
      ELSE [exc |-> "none", handlers |-> ListAppend(hs, Entry(h, k, FALSE))]

\* remove_handler: [exc, handlers] after the call
\* (faulty variants: removes nothing; removes the first entry of the list)
remove_handler_keep(hs, h) == [exc |-> "none", handlers |-> hs]
remove_handler_head(hs, h) ==
  IF \E i \in 1..Len(hs) : h = hs[i].h
  THEN [exc |-> "none", handlers |-> Tail(hs)]
  ELSE [exc |-> LoggerCall("error"), handlers |-> hs]
remove_handler(hs, h) ==
  LET idx == {i \in 1..Len(hs) : h = hs[i].h}
  IN  IF idx # {}
      THEN LET m == CHOOSE i \in idx : \A j \in idx : i <= j
           IN  [exc |-> "none", handlers |-> ListRemove(hs, hs[m].h, hs[m].k)]
      ELSE LET e == LoggerCall("error")
           IN  [exc |-> e, handlers |-> hs]

\* -------------------------------------------------------------------- fire
Top(s) == s[Len(s)]
Pop(s) == SubSeq(s, 1, Len(s) - 1)

\* self.handlers[:], the copy that fire iterates
Snapshot(hs) == hs

\* The list the for loop of fire reads its next element from
\* (faulty variant: self.handlers itself)
IterList_live(f, hs) == hs
IterList(f, hs) == f.snap

\* all_args = handle_kwargs.copy(); all_args.update(fire_kargs)
\* (faulty variant: all_args starts empty, the bound arguments are dropped)
MergeArgs_fireonly(handle_kwargs, fire_kargs) == DictUpdate({}, fire_kargs)
MergeArgs(handle_kwargs, fire_kargs) == DictUpdate(handle_kwargs, fire_kargs)

\* set(fire_kargs.keys()) & set(handle_kwargs.keys())
IntersectKeys(fire_kargs, handle_kwargs) ==
  Keys(fire_kargs) \cap Keys(handle_kwargs)

\* handler(self.owner) / handler(self.owner, **all_args): the call made.
\* sys and outcome are history: which registration call stored the entry,
\* and how the call ended ("running" while the handler has not returned).
Invocation(e, fire_kargs, own) ==
  [h |-> e.h, owner |-> own, args |-> MergeArgs(e.k, fire_kargs),
   sys |-> e.sys, outcome |-> "running"]

\* A frame of fire as it is when the call starts
\* selfRem is history: the handlers of this pass that removed themselves
\* while fire was calling them and have not been registered again
\* prev is history: the keyword arguments of the fire call before this one
\* sys0 is history: sysOrder when the call started
NewFrame(hs, fire_kargs, prev, sysReg) ==
  [snap |-> Snapshot(hs), i |-> 0, fargs |-> fire_kargs, invoked |-> <<>>,
   selfRem |-> {}, prev |-> prev, sys0 |-> sysReg]

\* history: a pass that has ended; end is "returned", "collision" (the
\* logger call of fire raised) or "handler" (an exception left a handler)
Ended(f, end, e) ==
  [snap |-> f.snap, fargs |-> f.fargs, invoked |-> f.invoked,
   selfRem |-> f.selfRem, prev |-> f.prev, sys0 |-> f.sys0, end |-> end,
   exc |-> e]

NoPass ==
  [snap |-> <<>>, fargs |-> {}, invoked |-> <<>>, selfRem |-> {},
   prev |-> {}, sys0 |-> <<>>, end |-> "none", exc |-> "none"]

\* The outcome of the invocation in progress in frame f
SetOutcome(f, o) ==
  IF f.invoked = <<>> THEN f
  ELSE [f EXCEPT !.invoked[Len(f.invoked)].outcome = o]

\* The dictionary stored in the entry after fire has built all_args from
\* it: update is applied to the copy, the stored dictionary is not written
\* (faulty variant: all_args is the stored dictionary itself)
StoredKwargs_alias(handle_kwargs, fire_kargs) ==
  DictUpdate(handle_kwargs, fire_kargs)
StoredKwargs(handle_kwargs, fire_kargs) == handle_kwargs

\* self.handlers after fire has built all_args for its entry e
AfterMerge(hs, e, fire_kargs) ==
  [j \in 1..Len(hs) |->
     IF hs[j].h = e.h /\ hs[j].k = e.k
     THEN [hs[j] EXCEPT !.k = StoredKwargs(e.k, fire_kargs)]
     ELSE hs[j]]

\* One turn of the for loop of fire in the top frame of s, up to the next
\* handler call: [handlers, stack, exc, lastPass] after it
Advance(s, hs, own, lp) ==
  LET f == Top(s)
      L == IterList(f, hs)
  IN  IF f.i >= Len(L)
      THEN [handlers |-> hs, stack |-> Pop(s), exc |-> "none",
            lastPass |-> Ended(f, "returned", "none")]
      ELSE LET e == L[f.i + 1]
               err == IF Cardinality(IntersectKeys(f.fargs, e.k)) > 0
                      THEN LoggerCall("error") ELSE "none"
           IN  IF err # "none"
               THEN [handlers |-> hs, stack |-> Pop(s), exc |-> err,
                     lastPass |-> Ended(f, "collision", err)]
               ELSE [handlers |-> AfterMerge(hs, e, f.fargs),
                     stack |-> [s EXCEPT ![Len(s)] =
                        [f EXCEPT !.i = f.i + 1,
                                  !.invoked = Append(f.invoked,
                                     Invocation(e, f.fargs, own))]],
                     exc |-> "none", lastPass |-> NoPass]

\* An exception e leaves the handler running in the top frame of s; fire has
\* no try/except, so the pass ends and e goes to the caller of fire
\* (faulty variant: the loop goes on with the next entry)
HandlerFailed_swallow(s, e, hs, own, lp) ==
  Advance([s EXCEPT ![Len(s)] = SetOutcome(Top(s), "raised")], hs, own, lp)
HandlerFailed(s, e, hs, own, lp) ==
  [handlers |-> hs, stack |-> Pop(s), exc |-> e,
   lastPass |-> Ended(SetOutcome(Top(s), "raised"), "handler", e)]

\* ------------------------------------------------------------------ state
\* history: a registration call.  by: the code that made it; had, before:
\* has_handler(h) and get_handler_count() when it was made; after:
\* get_handler_count() when it ended; exc: the exception it ended with;
\* follows: the step before it was an add_handler call with the same handler;
\* ret: the value a query returned, as a one-element sequence
NoCall == [op |-> "none", h |-> "none", by |-> "none", had |-> FALSE,
           before |-> 0, after |-> 0, exc |-> "none", follows |-> FALSE,
           ret |-> <<>>]

Init ==
  /\ handlers = <<>>
  /\ owner = "O"
  /\ stack = <<>>
  /\ exc = "none"
  /\ last = NoCall
  /\ lastPass = NoPass
  /\ regOrder = <<>>
  /\ pure = TRUE
  /\ lastFargs = {}
  /\ sysOrder = <<>>
  /\ ncalls = 0
  /\ nfires = 0

\* The code that is running: a handler called by fire, or the outside caller
Running == IF stack = <<>> THEN "caller" ELSE Top(stack).invoked[Len(Top(stack).invoked)].h

\* The running code can make a call: an exception delivered to a handler is
\* first caught or let through (Catch, Propagate)
CanCall(env) == stack = <<>> \/ (env.nested /\ exc = "none")

CallRec(op, h, r) ==
  [op |-> op, h |-> h, by |-> Running, had |-> has_handler(handlers, h),
   before |-> get_handler_count(handlers),
   after |-> get_handler_count(r.handlers), exc |-> r.exc,
   follows |-> (last.op = "add_handler" /\ last.h = h),
   ret |-> <<>>]

\* history: a query and the value it returned
QueryRec(op, h, v) ==
  [NoCall EXCEPT !.op = op, !.h = h, !.by = Running,
                 !.before = Len(handlers), !.after = Len(handlers),
                 !.ret = <<v>>]

\* history: q without handler h
Unlisted(q, h) == SelectSeq(q, LAMBDA x : x # h)

\* history: handler h has been registered again
Registered(s, h) == [n \in 1..Len(s) |-> [s[n] EXCEPT !.selfRem = @ \ {h}]]

\* history of add_handler calls while only such calls, on distinct handlers,
\* have been made
NotePure(op, h) ==
  IF op = "add_handler" /\ pure /\ \A j \in 1..Len(regOrder) : regOrder[j] # h
  THEN /\ regOrder' = Append(regOrder, h)
       /\ pure' = TRUE
  ELSE /\ regOrder' = <<>>
       /\ pure' = FALSE

AddHandler(h, k, env) ==
  /\ CanCall(env)
  /\ ncalls < env.calls
  /\ LET r == add_handler(handlers, h, k)
     IN  /\ handlers' = r.handlers
         /\ exc' = r.exc
         /\ last' = CallRec("add_handler", h, r)
         /\ stack' = IF r.exc = "none" THEN Registered(stack, h) ELSE stack
  /\ NotePure("add_handler", h)
  /\ ncalls' = ncalls + 1
  /\ lastPass' = NoPass
  /\ UNCHANGED <<owner, lastFargs, sysOrder, nfires>>

AddSysHandler(h, k, env) ==
  /\ CanCall(env)
  /\ ncalls < env.calls
  /\ LET r == add_sys_handler(handlers, h, k)
     IN  /\ handlers' = r.handlers
         /\ exc' = r.exc
         /\ last' = CallRec("add_sys_handler", h, r)
         /\ stack' = IF r.exc = "none" THEN Registered(stack, h) ELSE stack
         /\ sysOrder' = IF r.exc = "none" THEN Append(sysOrder, h)
                         ELSE sysOrder
  /\ NotePure("add_sys_handler", h)
  /\ ncalls' = ncalls + 1
  /\ lastPass' = NoPass
  /\ UNCHANGED <<owner, lastFargs, nfires>>

RemoveHandler(h, env) ==
  /\ CanCall(env)
  /\ ncalls < env.calls
  /\ LET r == remove_handler(handlers, h)
         self == r.exc = "none" /\ Running = h
     IN  /\ handlers' = r.handlers
         /\ exc' = r.exc
         /\ last' = CallRec("remove_handler", h, r)
         /\ stack' = IF self
                     THEN [stack EXCEPT ![Len(stack)].selfRem = @ \cup {h}]
                     ELSE stack
         /\ sysOrder' = IF r.exc = "none" THEN Unlisted(sysOrder, h)
                         ELSE sysOrder
  /\ NotePure("remove_handler", h)
  /\ ncalls' = ncalls + 1
  /\ lastPass' = NoPass
  /\ UNCHANGED <<owner, lastFargs, nfires>>

\* has_handler(h): reads the list and returns a boolean
HasHandler(h, env) ==
  /\ CanCall(env)
  /\ ncalls < env.calls
  /\ last' = QueryRec("has_handler", h, has_handler(handlers, h))
  /\ exc' = "none"
  /\ ncalls' = ncalls + 1
  /\ lastPass' = NoPass
  /\ UNCHANGED <<handlers, owner, stack, regOrder, pure, lastFargs, sysOrder, nfires>>

\* get_handler_count(): reads the list and returns its length
GetHandlerCount(env) ==
  /\ CanCall(env)
  /\ ncalls < env.calls
  /\ last' = QueryRec("get_handler_count", "none", get_handler_count(handlers))
  /\ exc' = "none"
  /\ ncalls' = ncalls + 1
  /\ lastPass' = NoPass
  /\ UNCHANGED <<handlers, owner, stack, regOrder, pure, lastFargs, sysOrder, nfires>>

Fire(fire_kargs, env) ==
  /\ CanCall(env)
  /\ nfires < env.fires
  /\ Len(stack) < env.depth
  /\ LET f0 == NewFrame(handlers, fire_kargs, lastFargs, sysOrder)
         r  == Advance(Append(stack, f0), handlers, owner, lastPass)
     IN  /\ handlers' = r.handlers
         /\ stack' = r.stack
         /\ exc' = r.exc
         /\ lastPass' = r.lastPass
  /\ nfires' = nfires + 1
  /\ last' = NoCall
  /\ lastFargs' = fire_kargs
  /\ UNCHANGED <<owner, regOrder, pure, sysOrder, ncalls>>

\* The running handler returns; fire goes on with its loop
HandlerReturn ==
  /\ stack # <<>>
  /\ exc = "none"
  /\ LET s == [stack EXCEPT ![Len(stack)] = SetOutcome(@, "returned")]
         r == Advance(s, handlers, owner, lastPass)
     IN  /\ handlers' = r.handlers
         /\ stack' = r.stack
         /\ exc' = r.exc
         /\ lastPass' = r.lastPass
  /\ last' = NoCall
  /\ UNCHANGED <<owner, regOrder, pure, lastFargs, sysOrder, ncalls, nfires>>

\* The running handler raises an exception of its own
HandlerRaise ==
  /\ stack # <<>>
  /\ exc = "none"
  /\ LET r == HandlerFailed(stack, "HandlerError", handlers, owner, lastPass)
     IN  /\ handlers' = r.handlers
         /\ stack' = r.stack
         /\ exc' = r.exc
         /\ lastPass' = r.lastPass
  /\ last' = NoCall
  /\ UNCHANGED <<owner, regOrder, pure, lastFargs, sysOrder, ncalls, nfires>>

\* The running handler catches the exception of the call it made
Catch ==
  /\ stack # <<>>
  /\ exc # "none"
  /\ exc' = "none"
  /\ last' = NoCall
  /\ lastPass' = NoPass
  /\ UNCHANGED <<handlers, owner, stack, regOrder, pure, lastFargs, sysOrder, ncalls, nfires>>

\* The running handler does not catch the exception of the call it made
Propagate ==
  /\ stack # <<>>
  /\ exc # "none"
  /\ LET r == HandlerFailed(stack, exc, handlers, owner, lastPass)
     IN  /\ handlers' = r.handlers
         /\ stack' = r.stack
         /\ exc' = r.exc
         /\ lastPass' = r.lastPass
  /\ last' = NoCall
  /\ UNCHANGED <<owner, regOrder, pure, lastFargs, sysOrder, ncalls, nfires>>

Next ==
  \/ \E h \in Handlers, k \in NoKw : AddHandler(h, k, Reentrant)
  \/ \E h \in Handlers, k \in NoKw : AddSysHandler(h, k, Reentrant)
  \/ \E h \in Handlers : RemoveHandler(h, Reentrant)
  \/ \E a \in NoKw : Fire(a, Reentrant)
  \/ HandlerReturn
  \/ HandlerRaise
  \/ Catch
  \/ Propagate

Spec == Init /\ [][Next]_vars

\* Calls with keyword arguments: registrations, removals and fire calls are
\* made by the outside caller only, queries also by the handlers
NextArgs ==
  \/ \E h \in Handlers, k \in BoundKw : AddHandler(h, k, Passive)
  \/ \E h \in Handlers, k \in BoundKw : AddSysHandler(h, k, Passive)
  \/ \E h \in Handlers : RemoveHandler(h, Passive)
  \/ \E h \in Handlers : HasHandler(h, Querying)
  \/ GetHandlerCount(Querying)
  \/ \E a \in FireKw : Fire(a, Passive)
  \/ HandlerReturn
  \/ HandlerRaise

SpecArgs == Init /\ [][NextArgs]_vars

\* Handlers that register and remove handlers, catch what these calls
\* raise, never call fire and return
NextFlat ==
  \/ \E h \in Handlers, k \in NoKw : AddHandler(h, k, Flat)
  \/ \E h \in Handlers, k \in NoKw : AddSysHandler(h, k, Flat)
  \/ \E h \in Handlers : RemoveHandler(h, Flat)
  \/ \E a \in NoKw : Fire(a, Flat)
  \/ HandlerReturn
  \/ Catch

\* Every invoked handler returns: it makes finitely many calls, handles the
\* exception of a call that raised, and then returns to fire
SpecFlat ==
  /\ Init
  /\ [][NextFlat]_vars
  /\ WF_vars(HandlerReturn)
  /\ WF_vars(Catch)

\* ============================================================= properties
HandlersOf(q) == [j \in 1..Len(q) |-> q[j].h]

\* The invocations of pass p so far are the first entries of its snapshot,
\* one call per entry, in list order, with the merged arguments
FollowsSnapshot(p) ==
  /\ Len(p.invoked) <= Len(p.snap)
  /\ \A j \in 1..Len(p.invoked) :
       /\ p.invoked[j].h = p.snap[j].h
       /\ p.invoked[j].owner = owner
       /\ p.invoked[j].args = DictUpdate(p.snap[j].k, p.fargs)

InvokedAll(p) == Len(p.invoked) = Len(p.snap)

PassEnded == lastPass.end # "none"

\* C1: after add_handler calls with pairwise distinct handlers, and no
\* add_sys_handler or remove_handler call, the list holds the handlers in the
\* order of registration, and a fire that returns has invoked each
\* registered handler exactly once, in that order.  (regOrder is the order
\* of the add_handler calls; a pass whose snapshot has the handlers of
\* regOrder is one during which no handler was registered.)
C1_RegistrationOrder ==
  /\ pure => HandlersOf(handlers) = regOrder
  /\ \A n \in 1..Len(stack) :
       pure =>
         /\ Len(stack[n].invoked) <= Len(regOrder)
         /\ \A j \in 1..Len(stack[n].invoked) :
              stack[n].invoked[j].h = regOrder[j]
  /\ (pure /\ lastPass.end = "returned"
        /\ HandlersOf(lastPass.snap) = regOrder) =>
       HandlersOf(lastPass.invoked) = regOrder

C1_Witness ==
  /\ pure
  /\ lastPass.end = "returned"
  /\ Len(regOrder) = 3
  /\ Len(lastPass.invoked) = 3

\* C2: in every pass no handler stored by add_handler is invoked before a
\* handler stored by add_sys_handler, whichever of the two was registered
\* first.
SysFirst(q) ==
  \A i \in 1..Len(q) : \A j \in 1..Len(q) :
    (i < j /\ q[j].sys) => q[i].sys

C2_SysBeforeUser ==
  /\ \A n \in 1..Len(stack) : SysFirst(stack[n].invoked)
  /\ PassEnded => SysFirst(lastPass.invoked)

\* A handler stored by add_handler was running in a pass whose snapshot held
\* no system handler; a fire called from it has invoked a system handler
\* first (one registered since the outer fire was called) and then the
\* handler itself
C2_Witness ==
  /\ Len(stack) = 2
  /\ \A j \in 1..Len(stack[1].snap) : ~stack[1].snap[j].sys
  /\ Len(stack[2].invoked) = 2
  /\ stack[2].invoked[1].sys
  /\ ~stack[2].invoked[2].sys
  /\ stack[2].invoked[2].h = stack[1].invoked[Len(stack[1].invoked)].h

\* C3: a pass invokes exactly the entries the list held when fire was
\* called, each once and in list order, whatever the handlers do to the list
\* meanwhile.
C3_SnapshotIterated ==
  /\ \A n \in 1..Len(stack) : FollowsSnapshot(stack[n])
  /\ PassEnded => FollowsSnapshot(lastPass)
  /\ lastPass.end = "returned" => InvokedAll(lastPass)

\* The only fire so far has returned.  The last entry of its snapshot was
\* invoked although another handler of the pass had removed it from the list
\* before, and the list holds a handler the pass never saw
C3_Witness ==
  /\ nfires = 1
  /\ lastPass.end = "returned"
  /\ Len(lastPass.snap) >= 2
  /\ LET z == lastPass.snap[Len(lastPass.snap)].h
     IN  /\ ~has_handler(handlers, z)
         /\ z \notin lastPass.selfRem
         /\ lastPass.invoked[Len(lastPass.invoked)].h = z
  /\ \E i \in 1..Len(handlers) :
       \A j \in 1..Len(lastPass.snap) : handlers[i].h # lastPass.snap[j].h

\* C4: a handler that removes itself during a pass does not end the pass:
\* the call returns normally and, unless a handler raises, fire returns after
\* invoking every entry of the snapshot; the handler is then absent from the
\* list, and a fire called after the removal does not invoke it.
AllReturned(q) == \A j \in 1..Len(q) : q[j].outcome = "returned"

Absent(hset) == \A h \in hset : ~has_handler(handlers, h)

C4_SelfRemoval ==
  /\ (last.op = "remove_handler" /\ last.by = last.h /\ last.had) =>
       /\ last.exc = "none"
       /\ Running = last.h
       /\ last.h \in Top(stack).selfRem
  /\ \A n \in 1..Len(stack) :
       /\ Absent(stack[n].selfRem)
       /\ \A m \in (n + 1)..Len(stack) : \A j \in 1..Len(stack[m].invoked) :
            stack[m].invoked[j].h \notin stack[n].selfRem
  /\ (PassEnded /\ lastPass.selfRem # {} /\ AllReturned(lastPass.invoked)) =>
       /\ lastPass.end = "returned"
       /\ InvokedAll(lastPass)
       /\ FollowsSnapshot(lastPass)
       /\ Absent(lastPass.selfRem)

\* A pass has returned whose first handler removed itself; the handlers after
\* it were invoked, and it is no longer in the list
C4_Witness ==
  /\ lastPass.end = "returned"
  /\ Len(lastPass.invoked) >= 2
  /\ lastPass.invoked[1].h \in lastPass.selfRem
  /\ ~has_handler(handlers, lastPass.invoked[1].h)
  /\ InvokedAll(lastPass)

\* A fire called after a self-removal has invoked another handler
C4_LaterPass ==
  /\ Len(stack) = 2
  /\ stack[1].selfRem # {}
  /\ stack[2].invoked # <<>>

\* C5: registering a handler that is already in the list returns normally
\* and inserts the duplicate entry (get_handler_count goes up by one per
\* call).
C5_DuplicatePermitted ==
  (last.op \in {"add_handler", "add_sys_handler"} /\ last.had) =>
    /\ last.exc = "none"
    /\ last.after = last.before + 1

\* C6: no handler is in more than one entry of the handler list.
C6_NoDuplicateHandler ==
  \A i \in 1..Len(handlers) : \A j \in 1..Len(handlers) :
    i # j => handlers[i].h # handlers[j].h

\* A handler called by fire has tried to register a handler that the list
\* already holds
C6_Witness ==
  /\ last.op \in {"add_handler", "add_sys_handler"}
  /\ last.had
  /\ last.by # "caller"
  /\ Len(handlers) >= 2

\* C7: remove_handler of a handler that is not in the list returns normally
\* and leaves get_handler_count unchanged.
C7_RemoveAbsent ==
  (last.op = "remove_handler" /\ ~last.had) =>
    /\ last.exc = "none"
    /\ last.after = last.before

\* C8: when a fire argument has the name of a bound argument of an entry,
\* fire does not abort: unless a handler raises, the pass invokes every
\* entry, each with the fire-time value of the colliding name.
Collides(p) ==
  \E j \in 1..Len(p.snap) : IntersectKeys(p.fargs, p.snap[j].k) # {}

C8_CollisionNonFatal ==
  (PassEnded /\ Collides(lastPass) /\ AllReturned(lastPass.invoked)) =>
    /\ lastPass.end = "returned"
    /\ InvokedAll(lastPass)
    /\ \A j \in 1..Len(lastPass.invoked) :
         lastPass.fargs \subseteq lastPass.invoked[j].args

\* C9: after add_handler(h) followed by remove_handler(h), has_handler(h) is
\* false and get_handler_count is one less than right after the add_handler
\* call.
C9_AddThenRemove ==
  (last.op = "remove_handler" /\ last.follows) =>
    /\ ~has_handler(handlers, last.h)
    /\ get_handler_count(handlers) = last.before - 1

C9_Witness ==
  /\ last.op = "remove_handler"
  /\ last.follows
  /\ last.exc = "none"
  /\ get_handler_count(handlers) = 2

\* C10: an exception that leaves a handler ends the pass and reaches the
\* caller of fire; the entries before the handler have each been invoked
\* once, the entries after it are not invoked.
C10_HandlerFailureAborts ==
  /\ \A n \in 1..Len(stack) : \A j \in 1..Len(stack[n].invoked) :
       stack[n].invoked[j].outcome =
         IF j < Len(stack[n].invoked) THEN "returned" ELSE "running"
  /\ lastPass.end = "returned" => AllReturned(lastPass.invoked)
  /\ lastPass.end = "handler" =>
       /\ exc = lastPass.exc
       /\ exc # "none"
       /\ lastPass.invoked # <<>>
       /\ FollowsSnapshot(lastPass)
       /\ \A j \in 1..Len(lastPass.invoked) :
            lastPass.invoked[j].outcome =
              IF j < Len(lastPass.invoked) THEN "returned" ELSE "raised"

\* The second of three handlers raised: the first was invoked, the third
\* was not
C10_Witness ==
  /\ lastPass.end = "handler"
  /\ lastPass.exc = "HandlerError"
  /\ stack = <<>>
  /\ Len(lastPass.snap) = 3
  /\ Len(lastPass.invoked) = 2

\* ---------------------------------------------------------------------
\* The passes in progress and the pass that has just ended
Passes == {stack[n] : n \in 1..Len(stack)} \cup {lastPass}

\* C11: every handler that fire has invoked for an entry whose bound
\* argument names are disjoint from the fire argument names was called with
\* the owner first and with exactly the bound arguments together with the
\* fire arguments as named arguments; with no bound and no fire arguments
\* it was called with the owner and no named argument.
C11_InvokedWithUnion ==
  \A p \in Passes : \A j \in 1..Len(p.invoked) :
     Keys(p.snap[j].k) \cap Keys(p.fargs) = {} =>
        /\ p.invoked[j].h = p.snap[j].h
        /\ p.invoked[j].owner = owner
        /\ p.invoked[j].args = p.snap[j].k \cup p.fargs
        /\ (p.snap[j].k = {} /\ p.fargs = {}) => p.invoked[j].args = {}

\* fire(n=5) has called two handlers registered with tag=7: each got
\* tag=7 and n=5
C11_Witness ==
  /\ lastPass.end = "returned"
  /\ lastPass.fargs = {<<"n", 5>>}
  /\ Len(lastPass.invoked) = 2
  /\ \A j \in 1..2 :
        /\ lastPass.snap[j].k = {<<"tag", 7>>}
        /\ lastPass.invoked[j].owner = "O"
        /\ lastPass.invoked[j].args = {<<"tag", 7>>, <<"n", 5>>}

\* fire() has called a handler registered without bound arguments
C11_OwnerOnly ==
  /\ lastPass.end = "returned"
  /\ lastPass.fargs = {}
  /\ Len(lastPass.invoked) >= 1
  /\ lastPass.snap[1].k = {}
  /\ lastPass.invoked[1].args = {}

\* ---------------------------------------------------------------------
\* The position of the first entry of q whose handler is h
FirstIndexOf(q, h) ==
  CHOOSE m \in 1..Len(q) : q[m].h = h /\ \A j \in 1..(m - 1) : q[j].h # h

\* q without its m-th entry, the others as they were and in the same order
WithoutIndex(q, m) ==
  [j \in 1..(Len(q) - 1) |-> IF j < m THEN q[j] ELSE q[j + 1]]

C13_BoundArgsKept ==
  /\ stack # <<>> => handlers = stack[1].snap
  /\ PassEnded => handlers = lastPass.snap
  /\ \A p \in Passes : \A j \in 1..Len(p.invoked) :
        /\ p.snap[j].k \subseteq p.invoked[j].args
        /\ p.invoked[j].args \subseteq p.snap[j].k \cup p.fargs
        /\ \A a \in p.prev :
              (a \notin p.fargs /\ a \notin p.snap[j].k) =>
                 a \notin p.invoked[j].args

\* after fire(x=2), fire(n=5) has called a handler registered with tag=7:
\* it got exactly tag=7 and n=5, and the stored entry still holds tag=7 only
C13_Witness ==
  /\ lastPass.end = "returned"
  /\ lastPass.prev = {<<"x", 2>>}
  /\ lastPass.fargs = {<<"n", 5>>}
  /\ Len(lastPass.invoked) = 1
  /\ lastPass.invoked[1].args = {<<"tag", 7>>, <<"n", 5>>}
  /\ Len(handlers) = 1
  /\ handlers[1].k = {<<"tag", 7>>}

\* ---------------------------------------------------------------------
\* C14: has_handler(h) returns true exactly when some entry of the list has
\* handler h, whatever its bound arguments; has_handler and
\* get_handler_count leave the handler list and the owner as they were.
C14_PureQueries ==
  [][ /\ last'.op = "has_handler" =>
           last'.ret = << \E j \in 1..Len(handlers) :
                            handlers[j].h = last'.h >>
      /\ last'.op = "get_handler_count" => last'.ret = << Len(handlers) >>
      /\ last'.op \in {"has_handler", "get_handler_count"} =>
           (handlers' = handlers /\ owner' = owner)
    ]_vars

\* has_handler(h) has returned true for a handler registered with bound
\* arguments, in a list of two entries
C14_Witness ==
  /\ last.op = "has_handler"
  /\ last.ret = <<TRUE>>
  /\ Len(handlers) = 2
  /\ \E j \in 1..2 : handlers[j].h = last.h /\ handlers[j].k # {}

\* has_handler(h) has returned false on a list that is not empty
C14_Absent ==
  /\ last.op = "has_handler"
  /\ last.ret = <<FALSE>>
  /\ Len(handlers) >= 1

\* get_handler_count() has returned 2
C14_Count ==
  /\ last.op = "get_handler_count"
  /\ last.ret = <<2>>

\* a handler that fire is calling has called has_handler for itself
C14_DuringPass ==
  /\ last.op = "has_handler"
  /\ stack # <<>>
  /\ last.by = last.h
  /\ last.ret = <<TRUE>>

\* ---------------------------------------------------------------------
Reversed(q) == [j \in 1..Len(q) |-> q[Len(q) + 1 - j]]

IsPrefix(q, r) == Len(q) <= Len(r) /\ q = SubSeq(r, 1, Len(q))

\* The handlers a pass has invoked for entries stored by add_sys_handler
SysInvoked(p) == HandlersOf(SelectSeq(p.invoked, LAMBDA c : c.sys))

\* C15: add_sys_handler puts its handler at position 0, so fire invokes
\* the system handlers in the reverse of the order in which they were
\* registered: one registered later is invoked before every one
\* registered earlier.
C15_SysReverseOrder ==
  /\ (last.op = "add_sys_handler" /\ last.exc = "none") =>
        (handlers[1].h = last.h /\ handlers[1].sys)
  /\ \A p \in Passes : IsPrefix(SysInvoked(p), Reversed(p.sys0))
  /\ lastPass.end = "returned" =>
        SysInvoked(lastPass) = Reversed(lastPass.sys0)

\* three handlers were registered with add_sys_handler and a fire pass has
\* invoked them all, the last registered first
C15_Witness ==
  /\ lastPass.end = "returned"
  /\ Len(lastPass.sys0) = 3
  /\ HandlersOf(lastPass.invoked) = Reversed(lastPass.sys0)

\* ---------------------------------------------------------------------
\* The step is a fire call made by a handler that fire is calling
NestedFireStep == nfires' = nfires + 1 /\ stack # <<>>

\* The pass a fire step has started: still in progress, or ended at once
StartedPass == IF Len(stack') > Len(stack) THEN Top(stack') ELSE lastPass'

\* The frames under the top one are not touched while the top one runs
OuterFramesWait ==
  /\ Len(stack') >= Len(stack) - 1
  /\ \A n \in 1..(Len(stack) - 1) :
        /\ stack'[n].snap = stack[n].snap
        /\ stack'[n].i = stack[n].i
        /\ stack'[n].invoked = stack[n].invoked

\* A frame that goes on after a step still has its snapshot, and the
\* handler it invokes next is the one at its position in that snapshot
GoesOnOverSnapshot ==
  \A n \in 1..Len(stack) :
     n <= Len(stack') =>
       /\ stack'[n].snap = stack[n].snap
       /\ Len(stack'[n].invoked) > Len(stack[n].invoked) =>
             /\ Len(stack'[n].invoked) = Len(stack[n].invoked) + 1
             /\ Len(stack'[n].invoked) <= Len(stack[n].snap)
             /\ Top(stack'[n].invoked).h =
                   stack[n].snap[Len(stack'[n].invoked)].h

\* C16: a fire call made by a handler during a pass iterates the list as
\* it stands when that call starts, and runs to its end before the outer
\* pass invokes its next handler; the outer pass then goes on over the
\* snapshot it took when it started.
C16_NestedFire ==
  [][ /\ NestedFireStep =>
           (StartedPass.snap = handlers /\ SubSeq(stack', 1, Len(stack)) = stack)
      /\ OuterFramesWait
      /\ GoesOnOverSnapshot
    ]_vars

\* a nested pass has just returned after invoking handlers of a list that
\* the outer pass had changed, and the outer pass, still in progress, has
\* entries of its own snapshot left to invoke
C16_Witness ==
  /\ Len(stack) = 1
  /\ lastPass.end = "returned"
  /\ Len(lastPass.invoked) >= 2
  /\ lastPass.snap # stack[1].snap
  /\ stack[1].i < Len(stack[1].snap)
  /\ exc = "none"

\* ---------------------------------------------------------------------
\* C17: an add_handler, add_sys_handler or remove_handler call that ends
\* with an exception leaves the handler list exactly as it was before the
\* call.
C17_FailedCallKeepsList ==
  [][ (/\ last'.op \in {"add_handler", "add_sys_handler", "remove_handler"}
       /\ last'.exc # "none")
      => handlers' = handlers
    ]_vars

\* add_handler or add_sys_handler has ended with an exception on a list of
\* two entries, which still has two entries
C17_Witness ==
  /\ last.op \in {"add_handler", "add_sys_handler"}
  /\ last.exc # "none"
  /\ last.had
  /\ last.before = 2
  /\ Len(handlers) = 2

\* remove_handler has ended with an exception on a list of two entries
C17_RemoveRaised ==
  /\ last.op = "remove_handler"
  /\ last.exc # "none"
  /\ last.before = 2
  /\ Len(handlers) = 2

\* ---------------------------------------------------------------------
\* C18: when every invoked handler returns and none calls fire, a fire pass
\* over a list of n entries makes at most n handler invocations and then
\* ends, also when the handlers register further handlers during the pass.
C18_PassTerminates ==
  /\ [](\A p \in Passes : Len(p.invoked) <= Len(p.snap))
  /\ (stack # <<>>) ~> (stack = <<>>)

\* a pass over two entries has returned after two invocations, and the
\* list has grown while it ran
C18_Witness ==
  /\ lastPass.end = "returned"
  /\ Len(lastPass.snap) = 2
  /\ Len(lastPass.invoked) = 2
  /\ Len(handlers) > Len(lastPass.snap)
====
